---- MODULE Spec2Model ----
(***************************************************************************)
(* PopMap: the tile generator (src/src/lib/PopMapGenerator.ts) and the     *)
(* render-grid transform of the map component (renderMap).                 *)
(*                                                                         *)
(* Numbers.  Latitudes, longitudes and populations are small non-negative  *)
(* integers, so every quotient the code forms in floating point is a       *)
(* rational whose rounding is exact; Math.round(n/d) is floor(n/d + 1/2).  *)
(* The one non-number the code produces is NaN (0/0); it is the value NaN  *)
(* below: arithmetic on it gives NaN and every comparison with it is false.*)
(* Euclidean distances are compared through their squares (Math.sqrt is    *)
(* strictly increasing on the integers that occur).                        *)
(***************************************************************************)
EXTENDS Integers, Sequences, FiniteSets, TLC

VARIABLES
    isDragging,       \* the component's isDragging
    dragCityIndex,    \* the component's dragCityIndex (0-based, -1 for none)
    pressedCityIndex, \* history: the index in editableCities, when the drag
                      \* started, of the city whose tile got the mousedown
    editableCities,   \* the component's editableCities: City[]
    previous,         \* history: the result of the pass before, kept while the
                      \* list given to the generator stays the same
    input,            \* the constructor's argument cities: City[]
    gridWidth,        \* this.gridWidth
    gridHeight,       \* this.gridHeight
    totalPopulation,  \* this.totalPopulation
    cities,           \* this.cities: GridCity[], sorted by numTiles
    takenCells,       \* this.takenCells: Set<number> of packed coordinates
    cityTiles,        \* this.cityTiles: CityTiles[]
    pc,               \* position inside generate()/placeTiles()/renderMap()
    cityIndex,        \* placeTiles: the for-loop's cityIndex
    tiles,            \* placeTiles: the local tiles of the current city
    i,                \* placeTiles: the inner loop's counter
    renderGrid,       \* renderMap: the render grid, renderGrid[y][x]
    renderX,          \* renderMap: the border loops' x
    renderY           \* renderMap: the border loops' y

vars == <<isDragging, dragCityIndex, pressedCityIndex, editableCities, previous, input, gridWidth, gridHeight, totalPopulation, cities, takenCells, cityTiles,
          pc, cityIndex, tiles, i, renderGrid, renderX, renderY>>

---------------------------------------------------------------------------
(* Program constants *)

NUM_TILES == 1024
BUFFER_SIZE == 5
MAX_FALLBACK_CANDIDATES == 50
PALETTE_SIZE == 10

(* Bounds of the model *)

MaxCities == 2
FarCoord == 2
TinyGrid == 4
SmallGrid == 6
WideGrid == 11
MaxSmallPopulation == 3

(* Input domains: the cities a run draws its list from (a list may repeat *)
(* one; two of them share a name), and the grid sizes.  Populations       *)
(* NUM_TILES - 1 and NUM_TILES together round to the same quota, and a    *)
(* population of 0 rounds to quota 0 (or to NaN when the total is 0).     *)

CityCatalogue ==
    {[name |-> "Ames", population |-> 0, lat |-> 0, lng |-> 0],
     [name |-> "Bend", population |-> 3, lat |-> 1, lng |-> 1],
     [name |-> "Cody", population |-> NUM_TILES - 1, lat |-> 0, lng |-> FarCoord],
     [name |-> "Dover", population |-> NUM_TILES, lat |-> FarCoord, lng |-> 0],
     [name |-> "Ames", population |-> 0, lat |-> FarCoord, lng |-> FarCoord]}

GridSizes == {<<TinyGrid, TinyGrid>>, <<SmallGrid, SmallGrid>>,
              <<WideGrid, SmallGrid>>, <<TinyGrid, SmallGrid>>}

CityInputs == UNION {[1..n -> CityCatalogue] : n \in 0..MaxCities}

\* two locations of populations 100 and 300 that differ in latitude and in
\* longitude, in both input orders, on a 20x20 grid
ScenarioA ==
    {<<<<[name |-> "Small", population |-> 100, lat |-> 0, lng |-> 0],
         [name |-> "Large", population |-> 300, lat |-> 1, lng |-> 1]>>, 20, 20>>,
     <<<<[name |-> "Large", population |-> 300, lat |-> 0, lng |-> 1],
         [name |-> "Small", population |-> 100, lat |-> 1, lng |-> 0]>>, 20, 20>>}

\* a grid of 16 cells for quotas 4, 4, 4 and 1012: two towns at one corner of
\* the bounding box, one at the opposite corner, a city between them
ScenarioC ==
    {<<<<[name |-> "Alma", population |-> 4, lat |-> 0, lng |-> 0],
         [name |-> "Brid", population |-> 4, lat |-> 0, lng |-> 0],
         [name |-> "Cove", population |-> 4, lat |-> 2, lng |-> 2],
         [name |-> "Dale", population |-> 1012, lat |-> 1, lng |-> 1]>>, 4, 4>>}

\* two locations whose populations add up to 2 * NUM_TILES, so that the quota
\* of a population p is p / 2: a half for every odd p
ScenarioHalves ==
    {<<<<[name |-> "Pea", population |-> p, lat |-> 0, lng |-> 0],
         [name |-> "Rest", population |-> 2 * NUM_TILES - p, lat |-> 1, lng |-> 1]>>,
       4, 4>> : p \in 0..MaxSmallPopulation}

\* two towns at one place whose center lies in the grid, and a city elsewhere
ScenarioShared ==
    {<<<<[name |-> "Elm", population |-> 4, lat |-> 0, lng |-> 0],
         [name |-> "Fir", population |-> 4, lat |-> 0, lng |-> 0],
         [name |-> "Gap", population |-> 1016, lat |-> 1, lng |-> 1]>>, 11, 11>>}

\* three towns and a city on a 4x5 grid: the city, placed last with its center
\* (5, 0) outside the grid, is walled in while cells are still free
ScenarioWalled ==
    {<<<<[name |-> "Holt", population |-> 10, lat |-> 2, lng |-> 2],
         [name |-> "Iver", population |-> 4, lat |-> 1, lng |-> 2],
         [name |-> "Jude", population |-> 1, lat |-> 0, lng |-> 3],
         [name |-> "Kent", population |-> 1000, lat |-> 2, lng |-> 1]>>, 4, 5>>}

\* a hamlet, a town and a city on a 4x24 grid: the town (center (5, 16), quota
\* 26) takes the whole of row 16; the city (center (5, 19)), placed last, fills
\* the rows above it and is walled in while 52 cells below the town are free
ScenarioCapped ==
    {<<<<[name |-> "Una", population |-> 1, lat |-> 0, lng |-> 1],
         [name |-> "Tor", population |-> 26, lat |-> 11, lng |-> 0],
         [name |-> "Gil", population |-> 997, lat |-> 14, lng |-> 0]>>, 4, 24>>}

Scenarios ==
    ScenarioA \cup ScenarioC \cup ScenarioHalves \cup ScenarioShared \cup ScenarioWalled
        \cup ScenarioCapped

\* the longest side of any grid of the model
LongestSide ==
    LET sides == {g[1] : g \in GridSizes} \cup {g[2] : g \in GridSizes}
                    \cup {s[2] : s \in Scenarios} \cup {s[3] : s \in Scenarios}
    IN CHOOSE m \in sides : \A n \in sides : m >= n

---------------------------------------------------------------------------
(* Numbers *)

NaN == 0 - 1000000
NULL == 0 - 1

Abs(a) == IF a < 0 THEN 0 - a ELSE a
Max(a, b) == IF a > b THEN a ELSE b
Min(a, b) == IF a < b THEN a ELSE b

\* mutant of Round: halves go down
RoundHalfDown(num, den) == (2 * num + den - 1) \div (2 * den)

\* Math.round(num / den) for den > 0: halves go up
Round(num, den) == (2 * num + den) \div (2 * den)

\* a + b in the code's arithmetic
Plus(a, b) == IF a = NaN \/ b = NaN THEN NaN ELSE a + b

\* a < b in the code's arithmetic
Less(a, b) == a # NaN /\ b # NaN /\ a < b

SeqMin(s, f(_)) == CHOOSE m \in {f(s[k]) : k \in 1..Len(s)} :
                       \A k \in 1..Len(s) : m <= f(s[k])
SeqMax(s, f(_)) == CHOOSE m \in {f(s[k]) : k \in 1..Len(s)} :
                       \A k \in 1..Len(s) : m >= f(s[k])

---------------------------------------------------------------------------
(* constructor *)

SumPopulation(list) ==
    LET RECURSIVE Sum(_)
        Sum(k) == IF k = 0 THEN 0 ELSE Sum(k - 1) + list[k].population
    IN Sum(Len(list))

convertCitiesToGridCoordinates(list, width, height, total) ==
    IF list = <<>> THEN <<>>
    ELSE
    LET minLng == SeqMin(list, LAMBDA c : c.lng)
        maxLng == SeqMax(list, LAMBDA c : c.lng)
        minLat == SeqMin(list, LAMBDA c : c.lat)
        maxLat == SeqMax(list, LAMBDA c : c.lat)
        rangeLng == maxLng - minLng
        rangeLat == maxLat - minLat
        effectiveWidth == width - 2 * BUFFER_SIZE
        effectiveHeight == height - 2 * BUFFER_SIZE
    IN [k \in 1..Len(list) |->
          [name |-> list[k].name,
           population |-> list[k].population,
           lat |-> list[k].lat,
           lng |-> list[k].lng,
           centerX |-> IF rangeLng = 0 THEN NaN
                       ELSE Round((list[k].lng - minLng) * effectiveWidth
                                    + BUFFER_SIZE * rangeLng, rangeLng),
           centerY |-> IF rangeLat = 0 THEN NaN
                       ELSE Round((list[k].lat - minLat) * effectiveHeight
                                    + BUFFER_SIZE * rangeLat, rangeLat),
           numTiles |-> IF total = 0 THEN NaN
                        ELSE Round(NUM_TILES * list[k].population, total)]]

\* the comparator of this.cities.sort: a.numTiles - b.numTiles (NaN counts as 0)
CompareNumTiles(a, b) ==
    IF a.numTiles = NaN \/ b.numTiles = NaN THEN 0 ELSE a.numTiles - b.numTiles

\* mutant of SortCities: equal elements end in reverse input order
RECURSIVE SortCitiesUnstable(_)
SortCitiesUnstable(s) ==
    IF s = <<>> THEN <<>>
    ELSE LET front == SortCitiesUnstable(SubSeq(s, 1, Len(s) - 1))
             last == s[Len(s)]
             keep == Cardinality({k \in 1..Len(front) :
                                     CompareNumTiles(front[k], last) < 0})
         IN SubSeq(front, 1, keep) \o <<last>> \o SubSeq(front, keep + 1, Len(front))

\* mutant of SortCities: the order is descending
RECURSIVE SortCitiesDescending(_)
SortCitiesDescending(s) ==
    IF s = <<>> THEN <<>>
    ELSE LET front == SortCitiesDescending(SubSeq(s, 1, Len(s) - 1))
             last == s[Len(s)]
             keep == Cardinality({k \in 1..Len(front) :
                                     CompareNumTiles(front[k], last) >= 0})
         IN SubSeq(front, 1, keep) \o <<last>> \o SubSeq(front, keep + 1, Len(front))

\* Array.prototype.sort: a stable sort under the comparator
RECURSIVE SortCities(_)
SortCities(s) ==
    IF s = <<>> THEN <<>>
    ELSE LET front == SortCities(SubSeq(s, 1, Len(s) - 1))
             last == s[Len(s)]
             keep == Cardinality({k \in 1..Len(front) :
                                     CompareNumTiles(front[k], last) <= 0})
         IN SubSeq(front, 1, keep) \o <<last>> \o SubSeq(front, keep + 1, Len(front))

---------------------------------------------------------------------------
(* helpers of the generator *)

\* mutant of packCoordinate: the row length is taken to be gridHeight
packCoordinateByHeight(x, y) == y * gridHeight + x

packCoordinate(x, y) == y * gridWidth + x

unpackCoordinate(packed) == [x |-> packed % gridWidth, y |-> packed \div gridWidth]

\* mutant of isValidCell: the upper bounds are off by one
isValidCellOffByOne(x, y) ==
    /\ x # NaN /\ y # NaN
    /\ x >= 0 /\ x <= gridWidth /\ y >= 0 /\ y <= gridHeight

isValidCell(x, y) ==
    /\ x # NaN /\ y # NaN
    /\ x >= 0 /\ x < gridWidth /\ y >= 0 /\ y < gridHeight

\* mutant of isOpenCell: takenCells is not consulted
isOpenCellIgnoringTaken(x, y) == isValidCell(x, y)

\* the test every search applies to a cell: valid, and not in takenCells
isOpenCell(x, y) == isValidCell(x, y) /\ packCoordinate(x, y) \notin takenCells

getColor(index) == index % PALETTE_SIZE

\* mutant of RingOffsets: dy is the outer loop
RingOffsetsDyOuter(radius) ==
    LET n == 2 * radius + 1
        all == [k \in 1..(n * n) |->
                  [dx |-> ((k - 1) % n) - radius, dy |-> ((k - 1) \div n) - radius]]
    IN SelectSeq(all, LAMBDA o : Abs(o.dx) = radius \/ Abs(o.dy) = radius)

\* the offsets (dx, dy) of one ring, in the order the two nested loops meet them
RingOffsets(radius) ==
    LET n == 2 * radius + 1
        all == [k \in 1..(n * n) |->
                  [dx |-> ((k - 1) \div n) - radius, dy |-> ((k - 1) % n) - radius]]
    IN SelectSeq(all, LAMBDA o : Abs(o.dx) = radius \/ Abs(o.dy) = radius)

\* the rings of every radius the searches use, computed once
RingScan == [radius \in 0..LongestSide |-> RingOffsets(radius)]

\* the open cells of one ring around (targetX, targetY), in scan order
RingOpenCells(targetX, targetY, radius) ==
    LET ring == RingScan[radius]
        cells == [k \in 1..Len(ring) |->
                    [x |-> Plus(targetX, ring[k].dx), y |-> Plus(targetY, ring[k].dy)]]
    IN SelectSeq(cells, LAMBDA c : isOpenCell(c.x, c.y))

RECURSIVE SpiralFirst(_, _, _)
SpiralFirst(targetX, targetY, radius) ==
    IF ~(radius < Max(gridWidth, gridHeight)) THEN <<>>
    ELSE LET open == RingOpenCells(targetX, targetY, radius)
         IN IF open # <<>> THEN <<open[1]>>
            ELSE SpiralFirst(targetX, targetY, radius + 1)

\* Coordinate | null as a sequence of length 1 | 0
findNearestOpenCell(targetX, targetY) ==
    IF isOpenCell(targetX, targetY) THEN <<[x |-> targetX, y |-> targetY]>>
    ELSE SpiralFirst(targetX, targetY, 1)

DistanceSq(x, y, centerX, centerY) ==
    (x - centerX) * (x - centerX) + (y - centerY) * (y - centerY)

Offsets8 == {o \in (-1..1) \X (-1..1) : o # <<0, 0>>}

\* adjacentCells: the packed open cells next to a tile of existingTiles
AdjacentCells(existingTiles) ==
    UNION {{packCoordinate(existingTiles[t].x + o[1], existingTiles[t].y + o[2]) :
              o \in {o \in Offsets8 :
                        isOpenCell(existingTiles[t].x + o[1], existingTiles[t].y + o[2])}} :
           t \in 1..Len(existingTiles)}

\* mutant of InsertionRank: dy is the outer loop of the neighbour scan
InsertionRankDyOuter(packed, existingTiles) ==
    LET c == unpackCoordinate(packed)
        t == CHOOSE t \in 1..Len(existingTiles) :
                 /\ Abs(c.x - existingTiles[t].x) <= 1
                 /\ Abs(c.y - existingTiles[t].y) <= 1
                 /\ \A u \in 1..(t - 1) :
                        \/ Abs(c.x - existingTiles[u].x) > 1
                        \/ Abs(c.y - existingTiles[u].y) > 1
    IN t * 9 + (c.y - existingTiles[t].y + 1) * 3 + (c.x - existingTiles[t].x + 1)

\* the position of a cell in the insertion order of the Set adjacentCells: the
\* first tile it is next to, then the (dx, dy) loop order
InsertionRank(packed, existingTiles) ==
    LET c == unpackCoordinate(packed)
        t == CHOOSE t \in 1..Len(existingTiles) :
                 /\ Abs(c.x - existingTiles[t].x) <= 1
                 /\ Abs(c.y - existingTiles[t].y) <= 1
                 /\ \A u \in 1..(t - 1) :
                        \/ Abs(c.x - existingTiles[u].x) > 1
                        \/ Abs(c.y - existingTiles[u].y) > 1
    IN t * 9 + (c.x - existingTiles[t].x + 1) * 3 + (c.y - existingTiles[t].y + 1)

\* the fallback's candidates, ring by ring, cut at MAX_FALLBACK_CANDIDATES
RECURSIVE SpiralCandidates(_, _, _, _)
SpiralCandidates(centerX, centerY, radius, found) ==
    IF ~(radius < Max(gridWidth, gridHeight) /\ Len(found) < MAX_FALLBACK_CANDIDATES)
    THEN found
    ELSE LET open == RingOpenCells(centerX, centerY, radius)
             room == MAX_FALLBACK_CANDIDATES - Len(found)
         IN SpiralCandidates(centerX, centerY, radius + 1,
                found \o SubSeq(open, 1, Min(room, Len(open))))

\* mutant of BestCandidate: the first candidate collected is returned
BestCandidateFirst(candidates, centerX, centerY) ==
    [x |-> candidates[1].x, y |-> candidates[1].y]

\* the first candidate of the list with the smallest distance to the center
BestCandidate(candidates, centerX, centerY) ==
    LET d(k) == DistanceSq(candidates[k].x, candidates[k].y, centerX, centerY)
        b == CHOOSE k \in 1..Len(candidates) :
                 /\ \A j \in 1..Len(candidates) : d(k) <= d(j)
                 /\ \A j \in 1..(k - 1) : d(j) > d(k)
    IN [x |-> candidates[b].x, y |-> candidates[b].y]

\* mutant of findBestNextCell: the adjacent cells are not looked at, the spiral
\* search is always used
findBestNextCellSpiralOnly(centerX, centerY, existingTiles) ==
    LET candidates == SpiralCandidates(centerX, centerY, 0, <<>>)
    IN IF candidates = <<>> THEN <<>>
       ELSE <<BestCandidate(candidates, centerX, centerY)>>

findBestNextCell(centerX, centerY, existingTiles) ==
    LET adjacentCells == AdjacentCells(existingTiles)
    IN IF adjacentCells # {}
       THEN LET d(p) == DistanceSq(p % gridWidth, p \div gridWidth, centerX, centerY)
                distances == {d(p) : p \in adjacentCells}
                shortest == CHOOSE m \in distances : \A n \in distances : m <= n
                nearest == {p \in adjacentCells : d(p) = shortest}
                best == CHOOSE p \in nearest : \A q \in nearest :
                            InsertionRank(p, existingTiles) <= InsertionRank(q, existingTiles)
            IN <<unpackCoordinate(best)>>
       ELSE LET candidates == SpiralCandidates(centerX, centerY, 0, <<>>)
            IN IF candidates = <<>> THEN <<>>
               ELSE <<BestCandidate(candidates, centerX, centerY)>>

---------------------------------------------------------------------------
(* the state after new PopMapGenerator(cities, gridWidth, gridHeight) *)

Init ==
    /\ \E g \in GridSizes : gridWidth = g[1] /\ gridHeight = g[2]
    /\ input \in CityInputs
    /\ isDragging = FALSE
    /\ dragCityIndex = 0 - 1
    /\ pressedCityIndex = 0 - 1
    /\ editableCities = input
    /\ previous = <<>>
    /\ totalPopulation = SumPopulation(input)
    /\ cities = SortCities(convertCitiesToGridCoordinates(
                    input, gridWidth, gridHeight, totalPopulation))
    /\ takenCells = {}
    /\ cityTiles = <<>>
    /\ pc = "new"
    /\ cityIndex = 0
    /\ tiles = <<>>
    /\ i = 0
    /\ renderGrid = <<>>
    /\ renderX = 0
    /\ renderY = 0

\* generate(): enter placeTiles
Generate ==
    /\ pc = "new"
    /\ pc' = "city"
    /\ cityIndex' = 0
    /\ UNCHANGED <<isDragging, dragCityIndex, pressedCityIndex,
                   editableCities, previous, input, gridWidth, gridHeight,
                   totalPopulation, cities, takenCells,
                   cityTiles, tiles, i, renderGrid, renderX, renderY>>

city == cities[cityIndex + 1]

\* placeTiles: the start cell of the next city is searched, and claimed if found
PlaceStartCell ==
    /\ pc = "city"
    /\ cityIndex < Len(cities)
    /\ LET startCell == findNearestOpenCell(city.centerX, city.centerY)
       IN IF startCell # <<>>
          THEN /\ takenCells' = takenCells \cup
                                   {packCoordinate(startCell[1].x, startCell[1].y)}
               /\ tiles' = <<startCell[1]>>
               /\ i' = 1
               /\ pc' = "grow"
          ELSE /\ tiles' = <<>>
               /\ pc' = "push"
               /\ UNCHANGED <<takenCells, i>>
    /\ UNCHANGED <<isDragging, dragCityIndex, pressedCityIndex,
                   editableCities, previous, input, gridWidth, gridHeight,
                   totalPopulation, cities, cityTiles,
                   cityIndex, renderGrid, renderX, renderY>>

\* mutant of GrowTile: the new cell takes the place of the last tile of the
\* list, whose cell is released
GrowTileMovingLast ==
    /\ pc = "grow"
    /\ Less(i, city.numTiles)
    /\ LET nextCell == findBestNextCell(city.centerX, city.centerY, tiles)
           last == tiles[Len(tiles)]
       IN IF nextCell # <<>>
          THEN /\ takenCells' = (takenCells \ {packCoordinate(last.x, last.y)}) \cup
                                   {packCoordinate(nextCell[1].x, nextCell[1].y)}
               /\ tiles' = [tiles EXCEPT ![Len(tiles)] = nextCell[1]]
               /\ i' = i + 1
               /\ pc' = "grow"
          ELSE /\ pc' = "push"
               /\ UNCHANGED <<takenCells, tiles, i>>
    /\ UNCHANGED <<isDragging, dragCityIndex, pressedCityIndex,
                   editableCities, previous, input, gridWidth, gridHeight,
                   totalPopulation, cities, cityTiles,
                   cityIndex, renderGrid, renderX, renderY>>

\* placeTiles: one more tile of the current city is searched, and claimed if
\* found; the loop breaks if there is none
GrowTile ==
    /\ pc = "grow"
    /\ Less(i, city.numTiles)
    /\ LET nextCell == findBestNextCell(city.centerX, city.centerY, tiles)
       IN IF nextCell # <<>>
          THEN /\ takenCells' = takenCells \cup
                                   {packCoordinate(nextCell[1].x, nextCell[1].y)}
               /\ tiles' = Append(tiles, nextCell[1])
               /\ i' = i + 1
               /\ pc' = "grow"
          ELSE /\ pc' = "push"
               /\ UNCHANGED <<takenCells, tiles, i>>
    /\ UNCHANGED <<isDragging, dragCityIndex, pressedCityIndex,
                   editableCities, previous, input, gridWidth, gridHeight,
                   totalPopulation, cities, cityTiles,
                   cityIndex, renderGrid, renderX, renderY>>

\* placeTiles: the inner loop ends, i has reached numTiles
GrowDone ==
    /\ pc = "grow"
    /\ ~Less(i, city.numTiles)
    /\ pc' = "push"
    /\ UNCHANGED <<isDragging, dragCityIndex, pressedCityIndex,
                   editableCities, previous, input, gridWidth, gridHeight,
                   totalPopulation, cities, takenCells,
                   cityTiles, cityIndex, tiles, i, renderGrid, renderX, renderY>>

\* placeTiles: this.cityTiles.push(...), next city
PushCityTiles ==
    /\ pc = "push"
    /\ cityTiles' = Append(cityTiles,
                       [index |-> cityIndex,
                        cityName |-> city.name,
                        tiles |-> tiles,
                        color |-> getColor(cityIndex)])
    /\ cityIndex' = cityIndex + 1
    /\ pc' = "city"
    /\ UNCHANGED <<isDragging, dragCityIndex, pressedCityIndex,
                   editableCities, previous, input, gridWidth, gridHeight,
                   totalPopulation, cities, takenCells,
                   tiles, i, renderGrid, renderX, renderY>>

\* placeTiles ends, generate() returns this.cityTiles
Return ==
    /\ pc = "city"
    /\ ~(cityIndex < Len(cities))
    /\ pc' = "done"
    /\ UNCHANGED <<isDragging, dragCityIndex, pressedCityIndex,
                   editableCities, previous, input, gridWidth, gridHeight,
                   totalPopulation, cities, takenCells,
                   cityTiles, cityIndex, tiles, i, renderGrid, renderX, renderY>>

---------------------------------------------------------------------------
(* renderMap: the render grid built from cityTiles *)

renderGridWidth == gridWidth * 2 + 1
renderGridHeight == gridHeight * 2 + 1

\* mutant of FillCityTiles: the two indices of the render grid are swapped
FillCityTilesSwapped(list) ==
    [y \in 0..(renderGridHeight - 1) |-> [x \in 0..(renderGridWidth - 1) |->
        IF x % 2 = 1 /\ y % 2 = 1
        THEN LET tile == [x |-> (y - 1) \div 2, y |-> (x - 1) \div 2]
                 holders == {k \in 1..Len(list) :
                               \E n \in 1..Len(list[k].tiles) : list[k].tiles[n] = tile}
             IN IF holders = {} THEN NULL
                ELSE list[CHOOSE k \in holders : \A j \in holders : j <= k].index
        ELSE NULL]]

\* the tile fill: every tile of every entry is written at (2x+1, 2y+1), entries
\* and tiles in list order, so the last entry holding a tile is the one kept
FillCityTiles(list) ==
    [y \in 0..(renderGridHeight - 1) |-> [x \in 0..(renderGridWidth - 1) |->
        IF x % 2 = 1 /\ y % 2 = 1
        THEN LET tile == [x |-> (x - 1) \div 2, y |-> (y - 1) \div 2]
                 holders == {k \in 1..Len(list) :
                               \E n \in 1..Len(list[k].tiles) : list[k].tiles[n] = tile}
             IN IF holders = {} THEN NULL
                ELSE list[CHOOSE k \in holders : \A j \in holders : j <= k].index
        ELSE NULL]]

SetCell(grid, x, y, value) == [grid EXCEPT ![y][x] = value]

\* mutant of BorderStep: the corner test leaves downRight out
BorderStepNoDownRight(grid, x, y) ==
    LET upLeft == grid[y - 1][x - 1]
        downLeft == grid[y + 1][x - 1]
        upRight == grid[y - 1][x + 1]
        top == IF upLeft = upRight THEN SetCell(grid, x, y - 1, upLeft) ELSE grid
        left == IF upLeft = downLeft THEN SetCell(top, x - 1, y, upLeft) ELSE top
    IN IF upLeft = NULL THEN grid
       ELSE IF upLeft = upRight /\ upLeft = downLeft
            THEN SetCell(left, x, y, upLeft)
            ELSE left

\* mutant of BorderStep: the border cell on the left is set without a look at
\* downLeft
BorderStepLeftUnchecked(grid, x, y) ==
    LET upLeft == grid[y - 1][x - 1]
        downLeft == grid[y + 1][x - 1]
        upRight == grid[y - 1][x + 1]
        downRight == grid[y + 1][x + 1]
        top == IF upLeft = upRight THEN SetCell(grid, x, y - 1, upLeft) ELSE grid
        left == SetCell(top, x - 1, y, upLeft)
    IN IF upLeft = NULL THEN grid
       ELSE IF upLeft = upRight /\ upLeft = downLeft /\ upLeft = downLeft
               /\ upLeft = downRight
            THEN SetCell(left, x, y, upLeft)
            ELSE left

\* the body of the border loop at the even position (x, y)
BorderStep(grid, x, y) ==
    LET upLeft == grid[y - 1][x - 1]
        downLeft == grid[y + 1][x - 1]
        upRight == grid[y - 1][x + 1]
        downRight == grid[y + 1][x + 1]
        top == IF upLeft = upRight THEN SetCell(grid, x, y - 1, upLeft) ELSE grid
        left == IF upLeft = downLeft THEN SetCell(top, x - 1, y, upLeft) ELSE top
    IN IF upLeft = NULL THEN grid
       ELSE IF upLeft = upRight /\ upLeft = downLeft /\ upLeft = downLeft
               /\ upLeft = downRight
            THEN SetCell(left, x, y, upLeft)
            ELSE left

\* generateMap, after generate(): renderMap() creates the render grid and fills
\* the city tiles in
RenderTiles ==
    /\ pc = "done"
    /\ input # <<>>
    /\ renderGrid' = FillCityTiles(cityTiles)
    /\ renderX' = 2
    /\ renderY' = 2
    /\ pc' = "borders"
    /\ UNCHANGED <<isDragging, dragCityIndex, pressedCityIndex,
                   editableCities, previous, input, gridWidth, gridHeight,
                   totalPopulation, cities, takenCells,
                   cityTiles, cityIndex, tiles, i>>

\* renderMap: one iteration of the border loops, at the even position
\* (renderX, renderY); the inner loop runs over x, the outer over y
RenderBorder ==
    /\ pc = "borders"
    /\ renderY < renderGridHeight - 2
    /\ renderX < renderGridWidth - 2
    /\ renderGrid' = BorderStep(renderGrid, renderX, renderY)
    /\ IF renderX + 2 < renderGridWidth - 2
       THEN renderX' = renderX + 2 /\ renderY' = renderY
       ELSE renderX' = 2 /\ renderY' = renderY + 2
    /\ UNCHANGED <<isDragging, dragCityIndex, pressedCityIndex,
                   editableCities, previous, input, gridWidth, gridHeight,
                   totalPopulation, cities, takenCells,
                   cityTiles, pc, cityIndex, tiles, i>>

\* renderMap: the border loops end
RenderDone ==
    /\ pc = "borders"
    /\ ~(renderY < renderGridHeight - 2 /\ renderX < renderGridWidth - 2)
    /\ pc' = "rendered"
    /\ UNCHANGED <<isDragging, dragCityIndex, pressedCityIndex,
                   editableCities, previous, input, gridWidth, gridHeight,
                   totalPopulation, cities, takenCells,
                   cityTiles, cityIndex, tiles, i, renderGrid, renderX, renderY>>

Next ==
    \/ Generate
    \/ PlaceStartCell
    \/ GrowTile
    \/ GrowDone
    \/ PushCityTiles
    \/ Return
    \/ RenderTiles
    \/ RenderBorder
    \/ RenderDone

Spec == Init /\ [][Next]_vars

---------------------------------------------------------------------------
(* Scenarios: generator runs on the particular inputs of Scenarios *)

InitScenarios ==
    /\ \E s \in Scenarios : input = s[1] /\ gridWidth = s[2] /\ gridHeight = s[3]
    /\ isDragging = FALSE
    /\ dragCityIndex = 0 - 1
    /\ pressedCityIndex = 0 - 1
    /\ editableCities = input
    /\ previous = <<>>
    /\ totalPopulation = SumPopulation(input)
    /\ cities = SortCities(convertCitiesToGridCoordinates(
                    input, gridWidth, gridHeight, totalPopulation))
    /\ takenCells = {}
    /\ cityTiles = <<>>
    /\ pc = "new"
    /\ cityIndex = 0
    /\ tiles = <<>>
    /\ i = 0
    /\ renderGrid = <<>>
    /\ renderX = 0
    /\ renderY = 0

SpecScenarios == InitScenarios /\ [][Next]_vars

---------------------------------------------------------------------------
(* The map component: edits of editableCities, each followed by generateMap() *)

\* the city addCity() puts in front of the list
NewCity == [name |-> "New City", population |-> 100000, lat |-> 39, lng |-> 0 - 95]

\* the populations updatePopulation is called with
EditedPopulations == {3}

\* mutant of generateMap: the new generator starts with the cells of the pass
\* before still taken
generateMapKeepingTaken(list) ==
    IF list = <<>>
    THEN UNCHANGED <<previous, input, totalPopulation, cities, takenCells, cityTiles,
                     pc, cityIndex, tiles, i, renderGrid, renderX, renderY>>
    ELSE /\ previous' = IF list = input THEN <<cityTiles>> ELSE <<>>
         /\ input' = list
         /\ totalPopulation' = SumPopulation(list)
         /\ cities' = SortCities(convertCitiesToGridCoordinates(
                          list, gridWidth, gridHeight, SumPopulation(list)))
         /\ takenCells' = takenCells
         /\ cityTiles' = <<>>
         /\ pc' = "new"
         /\ cityIndex' = 0
         /\ tiles' = <<>>
         /\ i' = 0
         /\ UNCHANGED <<renderGrid, renderX, renderY>>

\* generateMap() with editableCities = list, up to the call of generate(): it
\* returns at once for an empty list, and else makes a new PopMapGenerator;
\* the pass and renderMap() then run by the actions above
generateMap(list) ==
    IF list = <<>>
    THEN UNCHANGED <<previous, input, totalPopulation, cities, takenCells, cityTiles,
                     pc, cityIndex, tiles, i, renderGrid, renderX, renderY>>
    ELSE /\ previous' = IF list = input THEN <<cityTiles>> ELSE <<>>
         /\ input' = list
         /\ totalPopulation' = SumPopulation(list)
         /\ cities' = SortCities(convertCitiesToGridCoordinates(
                          list, gridWidth, gridHeight, SumPopulation(list)))
         /\ takenCells' = {}
         /\ cityTiles' = <<>>
         /\ pc' = "new"
         /\ cityIndex' = 0
         /\ tiles' = <<>>
         /\ i' = 0
         /\ UNCHANGED <<renderGrid, renderX, renderY>>

addCity ==
    /\ pc = "rendered"
    /\ Len(editableCities) < MaxCities
    /\ editableCities' = <<NewCity>> \o editableCities
    /\ generateMap(<<NewCity>> \o editableCities)
    /\ UNCHANGED <<isDragging, dragCityIndex, pressedCityIndex, gridWidth, gridHeight>>

removeCity ==
    /\ pc = "rendered"
    /\ \E index \in 1..Len(editableCities) :
          LET list == SubSeq(editableCities, 1, index - 1)
                        \o SubSeq(editableCities, index + 1, Len(editableCities))
          IN /\ editableCities' = list
             /\ generateMap(list)
    /\ UNCHANGED <<isDragging, dragCityIndex, pressedCityIndex, gridWidth, gridHeight>>

updatePopulation ==
    /\ pc = "rendered"
    /\ \E index \in 1..Len(editableCities), population \in EditedPopulations :
          LET list == [editableCities EXCEPT ![index].population = population]
          IN /\ editableCities' = list
             /\ generateMap(list)
    /\ UNCHANGED <<isDragging, dragCityIndex, pressedCityIndex, gridWidth, gridHeight>>

\* onMount with a non-empty cities prop, and the first generateMap(); the
\* component is checked on the narrow grids
InitMounted == Init /\ input # <<>> /\ gridWidth = TinyGrid

NextUI ==
    \/ Next
    \/ addCity
    \/ removeCity
    \/ updatePopulation

SpecUI == InitMounted /\ [][NextUI]_vars

\* generateMap() is called again while editableCities is as it was (a drag
\* inside one grid cell, a population typed in again): a second generator is
\* made from the same list and runs a second pass
generateAgain ==
    /\ pc = "rendered"
    /\ previous = <<>>
    /\ generateMap(editableCities)
    /\ UNCHANGED <<isDragging, dragCityIndex, pressedCityIndex,
                   editableCities, gridWidth, gridHeight>>

NextAgain ==
    \/ Next
    \/ generateAgain

SpecAgain == InitMounted /\ [][NextAgain]_vars

---------------------------------------------------------------------------
(* The map component: dragging a city *)

\* the grid positions (cityGridX, cityGridY) a mousemove is converted to
DragPositions == {<<0, 0>>, <<7, 7>>}

\* editableCities.findIndex((c) => c.name === name), 0-based, -1 for none
findIndex(list, name) ==
    IF \E j \in 1..Len(list) : list[j].name = name
    THEN (CHOOSE j \in 1..Len(list) :
              /\ list[j].name = name
              /\ \A u \in 1..(j - 1) : list[u].name # name) - 1
    ELSE 0 - 1

\* for each position of this.cities, the position in list of the city it was
\* made from: the constructor's conversion and sort, applied to the positions
SortedOrigins(list) ==
    LET converted == convertCitiesToGridCoordinates(
                         list, gridWidth, gridHeight, SumPopulation(list))
        tagged == SortCities([k \in 1..Len(converted) |->
                                 [numTiles |-> converted[k].numTiles, origin |-> k]])
    IN [k \in 1..Len(tagged) |-> tagged[k].origin]

\* mousedown on a rect of the city generator.cities[cellValue], and startDrag
startDrag ==
    /\ pc = "rendered"
    /\ \E cellValue \in 0..(Len(cityTiles) - 1) :
          /\ cityTiles[cellValue + 1].tiles # <<>>
          /\ cellValue + 1 <= Len(cities)
          /\ isDragging' = TRUE
          /\ dragCityIndex' = findIndex(editableCities, cities[cellValue + 1].name)
          /\ pressedCityIndex' = SortedOrigins(input)[cellValue + 1] - 1
    /\ UNCHANGED <<editableCities, previous, input, gridWidth, gridHeight,
                   totalPopulation, cities, takenCells, cityTiles,
                   pc, cityIndex, tiles, i, renderGrid, renderX, renderY>>

\* min + (offset / effective) * range in the code's arithmetic; on the grids
\* the component is checked on, both sides are shorter than 2 * BUFFER_SIZE,
\* the clamped position is BUFFER_SIZE and the offset 0, so the quotient is exact
DragTarget(min, offset, effective, range) ==
    IF effective = 0 THEN NaN ELSE min + (offset * range) \div effective

\* onDrag: the city at dragCityIndex gets the latitude and longitude of the
\* clamped mouse position, and the map is generated again
onDrag ==
    /\ pc = "rendered"
    /\ isDragging
    /\ dragCityIndex # 0 - 1
    /\ dragCityIndex + 1 \in 1..Len(editableCities)
    /\ \E position \in DragPositions :
          LET minLng == SeqMin(editableCities, LAMBDA c : c.lng)
              maxLng == SeqMax(editableCities, LAMBDA c : c.lng)
              minLat == SeqMin(editableCities, LAMBDA c : c.lat)
              maxLat == SeqMax(editableCities, LAMBDA c : c.lat)
              effectiveWidth == gridWidth - 2 * 5
              effectiveHeight == gridHeight - 2 * 5
              clampedGridX == Max(5, Min(gridWidth - 5, position[1]))
              clampedGridY == Max(5, Min(gridHeight - 5, position[2]))
              newLng == DragTarget(minLng, clampedGridX - 5, effectiveWidth, maxLng - minLng)
              newLat == DragTarget(minLat, clampedGridY - 5, effectiveHeight, maxLat - minLat)
              list == [editableCities EXCEPT ![dragCityIndex + 1].lat = newLat,
                                             ![dragCityIndex + 1].lng = newLng]
          IN /\ editableCities' = list
             /\ generateMap(list)
    /\ UNCHANGED <<isDragging, dragCityIndex, pressedCityIndex, gridWidth, gridHeight>>

\* endDrag, on mouseup and on mouseleave
endDrag ==
    /\ pc = "rendered"
    /\ isDragging
    /\ isDragging' = FALSE
    /\ dragCityIndex' = 0 - 1
    /\ pressedCityIndex' = 0 - 1
    /\ UNCHANGED <<editableCities, previous, input, gridWidth, gridHeight,
                   totalPopulation, cities, takenCells, cityTiles,
                   pc, cityIndex, tiles, i, renderGrid, renderX, renderY>>

NextDrag ==
    \/ NextUI
    \/ startDrag
    \/ onDrag
    \/ endDrag

SpecDrag == InitMounted /\ [][NextDrag]_vars

---------------------------------------------------------------------------
(* generate() is called a second time on the same PopMapGenerator *)

\* generate() once it has returned: placeTiles() runs again on the fields as
\* the first call left them; previous keeps the first call's result
GenerateRepeated ==
    /\ pc = "done"
    /\ previous = <<>>
    /\ previous' = <<cityTiles>>
    /\ pc' = "city"
    /\ cityIndex' = 0
    /\ UNCHANGED <<isDragging, dragCityIndex, pressedCityIndex,
                   editableCities, input, gridWidth, gridHeight,
                   totalPopulation, cities, takenCells,
                   cityTiles, tiles, i, renderGrid, renderX, renderY>>

NextRepeated ==
    \/ Next
    \/ GenerateRepeated

SpecRepeated == Init /\ [][NextRepeated]_vars

---------------------------------------------------------------------------
(* Properties *)

\* generate() has returned
Returned == pc \in {"done", "borders", "rendered"}

\* the tile lists that exist in a state: the pushed entries, and the local list
\* of the city being placed (slot 0)
TileSlots ==
    UNION {{k} \X (1..Len(cityTiles[k].tiles)) : k \in 1..Len(cityTiles)}
        \cup (IF pc \in {"grow", "push"} THEN {0} \X (1..Len(tiles)) ELSE {})

TileAt(slot) == IF slot[1] = 0 THEN tiles[slot[2]] ELSE cityTiles[slot[1]].tiles[slot[2]]

\* the cells of the grid
GridCells == (0..(gridWidth - 1)) \X (0..(gridHeight - 1))

GridFull == \A c \in GridCells : packCoordinate(c[1], c[2]) \in takenCells

\* the owner of grid cell (x, y) in the render grid
RenderedTile(x, y) == renderGrid[2 * y + 1][2 * x + 1]

\* C1: no grid coordinate is held twice, neither by two locations nor twice by
\* one: in every state of a pass, and so in the result of generate(), the tile
\* entries are as many as the distinct coordinates they hold.
C1_NoCoordinateTwice ==
    Cardinality({TileAt(slot) : slot \in TileSlots}) = Cardinality(TileSlots)

C1_Witness ==
    /\ pc = "done"
    /\ Len(cityTiles) >= 2
    /\ \A k \in 1..Len(cityTiles) : Len(cityTiles[k].tiles) >= 2

\* C2: in the result of generate(), every location holds at most numTiles
\* tiles, a location whose quota rounds to 0 included.
C2_QuotaBound ==
    pc = "done" =>
        \A k \in 1..Len(cityTiles) :
            cities[k].numTiles # NaN => Len(cityTiles[k].tiles) <= cities[k].numTiles

\* C3: when a location stops growing, it holds numTiles tiles unless no
\* grid-valid unclaimed cell remains.
C3_FullQuotaUnlessSaturated ==
    (pc = "push" /\ city.numTiles # NaN) => (Len(tiles) = city.numTiles \/ GridFull)

\* C4: every coordinate of every tile list lies in the grid, in every state of
\* a pass and so in the result of generate().
C4_TilesValid ==
    \A slot \in TileSlots :
        /\ 0 <= TileAt(slot).x /\ TileAt(slot).x < gridWidth
        /\ 0 <= TileAt(slot).y /\ TileAt(slot).y < gridHeight

C4_Witness ==
    /\ pc = "done"
    /\ \E k \in 1..Len(cityTiles) :
          /\ cities[k].centerX # NaN /\ cities[k].centerY # NaN
          /\ cities[k].centerX >= gridWidth
          /\ cities[k].centerY < 0
          /\ Len(cityTiles[k].tiles) >= 2

\* C5: this.cities is the input in ascending numTiles order, locations of equal
\* quota in input order; the entries of cityTiles are pushed in that order, each
\* with its position as index and the name of cities[index], one per location
\* once generate() has returned.
C5_SortedStableOrder ==
    LET converted == convertCitiesToGridCoordinates(
                         input, gridWidth, gridHeight, totalPopulation)
    IN /\ Len(cities) = Len(input)
       /\ \A a, b \in 1..Len(cities) :
              a < b => ~Less(cities[b].numTiles, cities[a].numTiles)
       /\ \A k \in 1..Len(cities) :
              SelectSeq(cities, LAMBDA c : c.numTiles = cities[k].numTiles)
                  = SelectSeq(converted, LAMBDA c : c.numTiles = cities[k].numTiles)
       /\ \A k \in 1..Len(cityTiles) :
              /\ cityTiles[k].index = k - 1
              /\ cityTiles[k].cityName = cities[k].name
       /\ Len(cityTiles) <= Len(cities)
       /\ Returned => Len(cityTiles) = Len(cities)

C5_Witness ==
    /\ pc = "done"
    /\ Len(cityTiles) = 2
    /\ cities[1].numTiles = cities[2].numTiles
    /\ cities[1].numTiles # NaN
    /\ cities[1].name # cities[2].name

\* the location at position k of this.cities has claimed a tile
HasClaimed(k) ==
    \/ k <= Len(cityTiles) /\ cityTiles[k].tiles # <<>>
    \/ k = cityIndex + 1 /\ pc \in {"grow", "push"} /\ tiles # <<>>

\* the location at position k of this.cities has claimed all the tiles it gets
HasFinished(k) ==
    \/ k <= Len(cityTiles)
    \/ k = cityIndex + 1 /\ pc = "push"

\* C6: of two cities, the one with the strictly smaller population has claimed
\* all of its tiles before the other claims its first.
C6_AscendingPopulation ==
    \A a, b \in 1..Len(cities) :
        (cities[a].population < cities[b].population /\ HasClaimed(b)) => HasFinished(a)

\* C7: the border cell between two orthogonally adjacent tiles of one city
\* carries that city's index, wherever the pair lies in the grid.
C7_BorderBetweenSameCity ==
    pc = "rendered" =>
        \A c \in GridCells :
            LET x == c[1]
                y == c[2]
            IN /\ (x + 1 < gridWidth /\ RenderedTile(x, y) # NULL
                     /\ RenderedTile(x, y) = RenderedTile(x + 1, y))
                  => renderGrid[2 * y + 1][2 * x + 2] = RenderedTile(x, y)
               /\ (y + 1 < gridHeight /\ RenderedTile(x, y) # NULL
                     /\ RenderedTile(x, y) = RenderedTile(x, y + 1))
                  => renderGrid[2 * y + 2][2 * x + 1] = RenderedTile(x, y)

\* C8: a 2x2 block of tiles of one location, anywhere in the grid, has its
\* shared corner cell and its four inner border cells assigned to that location.
C8_BlockCornerAndBorders ==
    pc = "rendered" =>
        \A c \in GridCells :
            LET x == c[1]
                y == c[2]
                owner == RenderedTile(x, y)
            IN (/\ x + 1 < gridWidth /\ y + 1 < gridHeight
                /\ owner # NULL
                /\ RenderedTile(x + 1, y) = owner
                /\ RenderedTile(x, y + 1) = owner
                /\ RenderedTile(x + 1, y + 1) = owner)
               => /\ renderGrid[2 * y + 2][2 * x + 2] = owner
                  /\ renderGrid[2 * y + 1][2 * x + 2] = owner
                  /\ renderGrid[2 * y + 3][2 * x + 2] = owner
                  /\ renderGrid[2 * y + 2][2 * x + 1] = owner
                  /\ renderGrid[2 * y + 2][2 * x + 3] = owner

\* the four diagonal neighbours of the even position (ex, ey) are all assigned
\* and all hold index
CornerSurroundedBy(ex, ey, index) ==
    /\ ex >= 1 /\ ex + 1 <= renderGridWidth - 1
    /\ ey >= 1 /\ ey + 1 <= renderGridHeight - 1
    /\ index # NULL
    /\ renderGrid[ey - 1][ex - 1] = index
    /\ renderGrid[ey - 1][ex + 1] = index
    /\ renderGrid[ey + 1][ex - 1] = index
    /\ renderGrid[ey + 1][ex + 1] = index

EvenPositions ==
    {p \in (0..(renderGridWidth - 1)) \X (0..(renderGridHeight - 1)) :
        p[1] % 2 = 0 /\ p[2] % 2 = 0}

\* C9: a corner cell (both coordinates even) is assigned exactly when its four
\* diagonal neighbours are all assigned and hold one index, and then it holds
\* that index.
C9_CornerIffFourEqual ==
    pc = "rendered" =>
        \A p \in EvenPositions :
            LET value == renderGrid[p[2]][p[1]]
            IN /\ value # NULL => CornerSurroundedBy(p[1], p[2], value)
               /\ (p[1] >= 1 /\ p[2] >= 1
                     /\ CornerSurroundedBy(p[1], p[2], renderGrid[p[2] - 1][p[1] - 1]))
                  => value # NULL

C9_Witness ==
    /\ pc = "rendered"
    /\ renderGrid[renderGridHeight - 3][renderGridWidth - 3] # NULL
    /\ \E p \in EvenPositions :
          /\ p[1] >= 2 /\ p[1] <= renderGridWidth - 3
          /\ p[2] >= 2 /\ p[2] <= renderGridHeight - 3
          /\ renderGrid[p[2]][p[1]] = NULL
          /\ renderGrid[p[2] - 1][p[1] - 1] # NULL
          /\ renderGrid[p[2] - 1][p[1] - 1] = renderGrid[p[2] - 1][p[1] + 1]
          /\ renderGrid[p[2] - 1][p[1] - 1] = renderGrid[p[2] + 1][p[1] - 1]
          /\ renderGrid[p[2] + 1][p[1] + 1] # NULL

\* C10: from the tile fill on, through every step of the border pass, the
\* render grid has 2*gridHeight+1 rows of 2*gridWidth+1 cells, and its cell
\* (2x+1, 2y+1) holds index i exactly when (x, y) is a tile of the entry with
\* index i, and is unassigned when (x, y) is no entry's tile.
C10_OddCellsAreTheTiles ==
    pc \in {"borders", "rendered"} =>
        /\ DOMAIN renderGrid = 0..(2 * gridHeight)
        /\ \A y \in DOMAIN renderGrid : DOMAIN renderGrid[y] = 0..(2 * gridWidth)
        /\ \A c \in GridCells :
              LET holders == {k \in 1..Len(cityTiles) :
                                \E n \in 1..Len(cityTiles[k].tiles) :
                                    cityTiles[k].tiles[n] = [x |-> c[1], y |-> c[2]]}
              IN /\ \A k \in holders : RenderedTile(c[1], c[2]) = cityTiles[k].index
                 /\ holders = {} => RenderedTile(c[1], c[2]) = NULL

C10_Witness ==
    /\ pc = "rendered"
    /\ renderX = 2 /\ renderY > 2
    /\ \E c \in GridCells : RenderedTile(c[1], c[2]) = NULL
    /\ \E c, d \in GridCells :
          /\ RenderedTile(c[1], c[2]) # NULL
          /\ RenderedTile(d[1], d[2]) # NULL
          /\ RenderedTile(c[1], c[2]) # RenderedTile(d[1], d[2])

\* the input the specification calls invalid: no location, or a total
\* population of zero
InvalidInput == input = <<>> \/ totalPopulation = 0

\* C11: with an empty location list or a total population of zero, generation
\* is rejected: generate() never returns a result and no cell is ever claimed.
C11_InvalidInputRejected ==
    InvalidInput => (~Returned /\ takenCells = {} /\ cityTiles = <<>>)

\* C12: every location has a defined grid center, also when the latitude range
\* or the longitude range of the input is zero.
C12_DefinedCenter ==
    \A k \in 1..Len(cities) : cities[k].centerX # NaN /\ cities[k].centerY # NaN

\* the location at position k of this.cities ends with fewer tiles than its quota
EndsShort(k) == Less(Len(cityTiles[k].tiles), cities[k].numTiles)

\* the sum of the quotas of this.cities
SumNumTiles ==
    LET RECURSIVE Sum(_)
        Sum(k) == IF k = 0 THEN 0 ELSE Plus(Sum(k - 1), cities[k].numTiles)
    IN Sum(Len(cities))

\* C13: when the grid has fewer cells than the sum of the quotas, the locations
\* that end short of their quota are the last-processed ones: no location
\* processed after a short one ends with its full quota.
C13_ShortOnesAreLast ==
    (pc = "done" /\ Less(gridWidth * gridHeight, SumNumTiles)) =>
        \A a, b \in 1..Len(cityTiles) : (a < b /\ EndsShort(a)) => EndsShort(b)

\* the tiles of the displayed cityTiles, packed
DisplayedCells ==
    UNION {{packCoordinate(cityTiles[k].tiles[n].x, cityTiles[k].tiles[n].y) :
              n \in 1..Len(cityTiles[k].tiles)} : k \in 1..Len(cityTiles)}

\* C14: whenever the component is at rest after generateMap(), the displayed
\* cityTiles are those of a pass over the current editableCities that started
\* from an empty occupancy set; with no city left, no tile is displayed.
C14_DisplayIsFreshGeneration ==
    pc = "rendered" =>
        /\ input = editableCities
        /\ Len(cityTiles) = Len(editableCities)
        /\ takenCells = DisplayedCells
        /\ editableCities = <<>> => DisplayedCells = {}

IsScenarioA == <<input, gridWidth, gridHeight>> \in ScenarioA

\* C16: with populations 100 and 300 on a 20x20 grid the quotas are 256 and
\* 768, the location of population 100 is processed first, and it holds all
\* of its 256 tiles before the other location claims its first cell.
C16_SmallerFirstAndWhole ==
    IsScenarioA =>
        /\ Len(cities) = 2
        /\ cities[1].population = 100 /\ cities[1].numTiles = 256
        /\ cities[2].population = 300 /\ cities[2].numTiles = 768
        /\ HasClaimed(2) => (Len(cityTiles) >= 1 /\ Len(cityTiles[1].tiles) = 256)
        /\ (pc \in {"grow", "push"} /\ cityIndex = 0)
              => Cardinality(takenCells) = Len(tiles)

C16_Witness ==
    /\ IsScenarioA
    /\ pc = "done"
    /\ input[1].population = 300
    /\ cityTiles[1].cityName = "Small"
    /\ Len(cityTiles[1].tiles) = 256
    /\ Len(cityTiles[2].tiles) = 20 * 20 - 256

\* C17: with a positive total, numTiles is the integer nearest to
\* NUM_TILES * population / totalPopulation, and the upper one of the two when
\* that value lies halfway between two integers.
C17_QuotaRoundsHalfUp ==
    totalPopulation > 0 =>
        \A k \in 1..Len(cities) :
            LET n == NUM_TILES * cities[k].population
                r == cities[k].numTiles
            IN /\ r # NaN
               /\ r >= 0
               /\ 2 * n - totalPopulation < 2 * r * totalPopulation
               /\ 2 * r * totalPopulation <= 2 * n + totalPopulation

C17_Witness ==
    /\ pc = "done"
    /\ totalPopulation > 0
    /\ \E k \in 1..Len(cities) :
          /\ 2 * cities[k].numTiles * totalPopulation
                = 2 * NUM_TILES * cities[k].population + totalPopulation
          /\ cities[k].numTiles = 1

\* the start cell has just been claimed: tiles holds it alone
StartCellClaimed == pc = "grow" /\ Len(tiles) = 1

\* the cells taken when the search for the start cell ran
TakenBeforeStart == takenCells \ {packCoordinate(tiles[1].x, tiles[1].y)}

\* C19: the start cell is the center when the center is grid-valid and
\* unclaimed; otherwise every other grid-valid unclaimed cell lies on a later
\* ring around the center than the start cell, or on the same ring with a
\* larger dx, or with the same dx and a larger dy.
C19_StartCellScanOrder ==
    StartCellClaimed =>
        LET cx == city.centerX
            cy == city.centerY
            dx == tiles[1].x - cx
            dy == tiles[1].y - cy
            r == Max(Abs(dx), Abs(dy))
        IN /\ cx # NaN /\ cy # NaN
           /\ (<<cx, cy>> \in GridCells /\ packCoordinate(cx, cy) \notin TakenBeforeStart)
                 => r = 0
           /\ \A c \in GridCells :
                 (packCoordinate(c[1], c[2]) \notin TakenBeforeStart
                     /\ c # <<tiles[1].x, tiles[1].y>>)
                 => LET ex == c[1] - cx
                        ey == c[2] - cy
                        q == Max(Abs(ex), Abs(ey))
                    IN \/ q > r
                       \/ q = r /\ ex > dx
                       \/ q = r /\ ex = dx /\ ey > dy

C19_Witness ==
    /\ StartCellClaimed
    /\ <<city.centerX, city.centerY>> \in GridCells
    /\ packCoordinate(city.centerX, city.centerY) \in TakenBeforeStart
    /\ \E c \in GridCells :
          /\ packCoordinate(c[1], c[2]) \notin takenCells
          /\ Max(Abs(c[1] - city.centerX), Abs(c[2] - city.centerY))
                = Max(Abs(tiles[1].x - city.centerX), Abs(tiles[1].y - city.centerY))
          /\ c[2] - city.centerY < tiles[1].y - city.centerY

\* C20: a location ends with no tile only if no grid-valid unclaimed cell lies
\* within Chebyshev distance max(gridWidth, gridHeight) of its center.
C20_NoTileOnlyIfNoneInRange ==
    (pc = "push" /\ tiles = <<>>) =>
        ~\E c \in GridCells :
            /\ packCoordinate(c[1], c[2]) \notin takenCells
            /\ city.centerX # NaN /\ city.centerY # NaN
            /\ Abs(c[1] - city.centerX) <= Max(gridWidth, gridHeight)
            /\ Abs(c[2] - city.centerY) <= Max(gridWidth, gridHeight)

\* the last tile of tiles was claimed by a growth step at which no grid-valid
\* unclaimed cell was adjacent to a tile the location already had
ClaimedByFallback ==
    /\ pc = "grow"
    /\ Len(tiles) >= 2
    /\ LET last == tiles[Len(tiles)]
           before == takenCells \ {packCoordinate(last.x, last.y)}
       IN \A t \in 1..(Len(tiles) - 1) : \A c \in GridCells :
              (Abs(c[1] - tiles[t].x) <= 1 /\ Abs(c[2] - tiles[t].y) <= 1)
                  => packCoordinate(c[1], c[2]) \in before

\* C18: a tile claimed by the fallback is at the smallest Euclidean distance
\* from the location's center among all the cells that were grid-valid and
\* unclaimed at that step.
C18_FallbackPicksNearest ==
    ClaimedByFallback =>
        LET last == tiles[Len(tiles)]
        IN \A c \in GridCells :
               packCoordinate(c[1], c[2]) \notin takenCells
                   => DistanceSq(last.x, last.y, city.centerX, city.centerY)
                         <= DistanceSq(c[1], c[2], city.centerX, city.centerY)

\* a growth step has just claimed the last tile of tiles
GrowthStepTaken == pc = "grow" /\ Len(tiles) >= 2

\* the tiles the location had before that step, and the cells taken then
TilesBefore == SubSeq(tiles, 1, Len(tiles) - 1)
TakenBefore == takenCells \ {packCoordinate(tiles[Len(tiles)].x, tiles[Len(tiles)].y)}

\* cell c is next to the tile at position t of the list
NextTo(c, t) ==
    /\ Abs(c[1] - tiles[t].x) <= 1
    /\ Abs(c[2] - tiles[t].y) <= 1
    /\ c # <<tiles[t].x, tiles[t].y>>

\* the adjacency frontier of that step: the grid-valid cells, unclaimed then,
\* next to a tile the location had
Frontier ==
    LET around == UNION {{<<tiles[t].x + o[1], tiles[t].y + o[2]>> : o \in Offsets8} :
                            t \in 1..(Len(tiles) - 1)}
        taken == TakenBefore
    IN {c \in around : c \in GridCells /\ packCoordinate(c[1], c[2]) \notin taken}

\* the first tile of the list that cell c is next to
FirstTileNextTo(c) ==
    CHOOSE t \in 1..(Len(tiles) - 1) : NextTo(c, t) /\ \A u \in 1..(t - 1) : ~NextTo(c, u)

\* cell a comes before cell b in the enumeration of the frontier: by the first
\* tile they are next to, then by dx, then by dy
EnumeratedBefore(a, b) ==
    LET ta == FirstTileNextTo(a)
        tb == FirstTileNextTo(b)
    IN \/ ta < tb
       \/ ta = tb /\ a[1] < b[1]
       \/ ta = tb /\ a[1] = b[1] /\ a[2] < b[2]

\* C21: in a growth step with a non-empty adjacency frontier the cell claimed
\* is a frontier cell at the smallest Euclidean distance from the location's
\* center over the whole frontier, and among the frontier cells at that
\* distance it is the first in an enumeration fixed by the tile list: tiles in
\* list order, around each tile dx ascending, then dy ascending.
C21_NearestFrontierCell ==
    GrowthStepTaken =>
        LET frontier == Frontier
            last == <<tiles[Len(tiles)].x, tiles[Len(tiles)].y>>
            d(c) == DistanceSq(c[1], c[2], city.centerX, city.centerY)
        IN frontier # {} =>
              /\ last \in frontier
              /\ \A c \in frontier : d(last) <= d(c)
              /\ \A c \in frontier :
                    (c # last /\ d(c) = d(last)) => EnumeratedBefore(last, c)

C21_Witness ==
    /\ GrowthStepTaken
    /\ Len(tiles) >= 4
    /\ LET last == <<tiles[Len(tiles)].x, tiles[Len(tiles)].y>>
           d(c) == DistanceSq(c[1], c[2], city.centerX, city.centerY)
       IN /\ last \in Frontier
          /\ FirstTileNextTo(last) > 1
          /\ \E c \in Frontier :
                /\ c # last /\ d(c) = d(last)
                /\ FirstTileNextTo(c) = FirstTileNextTo(last)
                /\ c[1] = last[1]
          /\ \E c \in Frontier :
                /\ c # last /\ d(c) = d(last)
                /\ FirstTileNextTo(c) > FirstTileNextTo(last)
                /\ c[1] < last[1]

\* two tiles are 8-directionally adjacent
AdjacentTiles(a, b) == Abs(a.x - b.x) <= 1 /\ Abs(a.y - b.y) <= 1 /\ a # b

\* the tile at position n of tiles is adjacent to an earlier tile of the list
AdjacentToEarlier(n) == \E t \in 1..(n - 1) : AdjacentTiles(tiles[n], tiles[t])

\* at the step that claimed the tile at position n of tiles, no grid-valid
\* unclaimed cell was next to a tile the location had: every neighbour of the
\* earlier tiles is off the grid or was taken before that step
NoFreeNeighbourAt(n) ==
    LET later == {packCoordinate(tiles[m].x, tiles[m].y) : m \in n..Len(tiles)}
    IN \A t \in 1..(n - 1) : \A o \in Offsets8 :
           LET x == tiles[t].x + o[1]
               y == tiles[t].y + o[2]
           IN \/ ~(x >= 0 /\ x < gridWidth /\ y >= 0 /\ y < gridHeight)
              \/ (packCoordinate(x, y) \in takenCells /\ packCoordinate(x, y) \notin later)

\* the positions of list reachable from the positions in seen by steps between
\* adjacent tiles; fresh are the positions added last
RECURSIVE ReachFrom(_, _, _)
ReachFrom(list, seen, fresh) ==
    IF fresh = {} THEN seen
    ELSE LET new == {k \in (1..Len(list)) \ seen :
                        \E j \in fresh : AdjacentTiles(list[j], list[k])}
         IN ReachFrom(list, seen \cup new, new)

\* the tiles of list form one 8-connected region
IsConnected(list) == list = <<>> \/ ReachFrom(list, {1}, {1}) = 1..Len(list)

\* C22: every tile after the first of a location's list is 8-directionally
\* adjacent to an earlier tile of the list, unless it was claimed at a step
\* where no grid-valid unclaimed cell was next to any tile of the location; a
\* location with no such step ends as one 8-connected region.
C22_AdjacentUnlessFallback ==
    /\ GrowthStepTaken =>
          (AdjacentToEarlier(Len(tiles)) \/ NoFreeNeighbourAt(Len(tiles)))
    /\ pc = "push" =>
          /\ \A n \in 2..Len(tiles) : AdjacentToEarlier(n) \/ NoFreeNeighbourAt(n)
          /\ (\A n \in 2..Len(tiles) : ~NoFreeNeighbourAt(n)) => IsConnected(tiles)

C22_Witness ==
    /\ pc = "push"
    /\ \E n \in 2..Len(tiles) : NoFreeNeighbourAt(n) /\ ~AdjacentToEarlier(n)
    /\ \E n \in 2..Len(tiles) : ~NoFreeNeighbourAt(n) /\ AdjacentToEarlier(n)
    /\ ~IsConnected(tiles)
    /\ \E k \in 1..Len(cityTiles) :
          /\ Len(cityTiles[k].tiles) >= 4
          /\ IsConnected(cityTiles[k].tiles)

\* the last tile of tiles was claimed by the fallback: the step found no
\* grid-valid unclaimed cell next to a tile of the location
FallbackStepTaken == GrowthStepTaken /\ NoFreeNeighbourAt(Len(tiles))

\* the ring of cell c around the center of the current city
RingOf(c) == Max(Abs(c[1] - city.centerX), Abs(c[2] - city.centerY))

\* the perimeter scan meets cell a before cell b: an earlier ring, or the same
\* ring and a smaller dx, or the same dx and a smaller dy
ScannedBefore(a, b) ==
    \/ RingOf(a) < RingOf(b)
    \/ RingOf(a) = RingOf(b) /\ a[1] < b[1]
    \/ RingOf(a) = RingOf(b) /\ a[1] = b[1] /\ a[2] < b[2]

\* the grid-valid cells outside taken on the rings the fallback scans
OpenInReach(taken) ==
    {c \in GridCells : /\ packCoordinate(c[1], c[2]) \notin taken
                       /\ RingOf(c) < Max(gridWidth, gridHeight)}

\* the cells the fallback collects: the first MAX_FALLBACK_CANDIDATES of
\* OpenInReach in scan order
Collected(taken) ==
    {c \in OpenInReach(taken) :
        Cardinality({b \in OpenInReach(taken) : ScannedBefore(b, c)})
            < MAX_FALLBACK_CANDIDATES}

\* C23: the fallback collects the grid-valid unclaimed cells ring by ring in
\* the perimeter scan order and stops at 50 candidates, so it collects the
\* first 50 of the scan and never more; the cell it returns is a collected one
\* at the smallest distance from the center among the collected; and growth
\* stops for want of a cell only when no grid-valid unclaimed cell lies on a
\* scanned ring.
C23_FallbackCollectsFirstFifty ==
    /\ FallbackStepTaken =>
          LET last == <<tiles[Len(tiles)].x, tiles[Len(tiles)].y>>
              d(c) == DistanceSq(c[1], c[2], city.centerX, city.centerY)
          IN /\ Cardinality(Collected(TakenBefore)) <= MAX_FALLBACK_CANDIDATES
             /\ last \in Collected(TakenBefore)
             /\ \A c \in Collected(TakenBefore) : d(last) <= d(c)
    /\ (pc = "push" /\ tiles # <<>> /\ Less(Len(tiles), city.numTiles)) =>
          OpenInReach(takenCells) = {}

C23_Witness ==
    /\ FallbackStepTaken
    /\ Cardinality(OpenInReach(TakenBefore)) > MAX_FALLBACK_CANDIDATES
    /\ Cardinality(Collected(TakenBefore)) = MAX_FALLBACK_CANDIDATES
    /\ \E c \in Collected(TakenBefore) :
          ScannedBefore(c, <<tiles[Len(tiles)].x, tiles[Len(tiles)].y>>)

\* the claims of a state: the pairs of a position in this.cities and a cell
\* that the location at that position holds
Claims ==
    {<<IF slot[1] = 0 THEN cityIndex + 1 ELSE slot[1], TileAt(slot)>> : slot \in TileSlots}

IsPrefix(s, t) == Len(s) <= Len(t) /\ SubSeq(t, 1, Len(s)) = s

\* C24: in a generation pass no step releases a cell or moves it to another
\* location: every step keeps every claim and every taken cell, the result
\* list and the tile list of the location being placed only get longer.
C24_ClaimsOnlyGrow ==
    [][/\ Claims \subseteq Claims'
       /\ takenCells \subseteq takenCells'
       /\ IsPrefix(cityTiles, cityTiles')
       /\ (pc = "grow" => IsPrefix(tiles, tiles'))]_vars

C24_Witness ==
    /\ pc = "grow"
    /\ Len(cityTiles) >= 1
    /\ Len(cityTiles[1].tiles) >= 2
    /\ Len(tiles) >= 2
    /\ Cardinality(takenCells) = Len(cityTiles[1].tiles) + Len(tiles)

\* the positions of the render grid
RenderPositions == (0..(renderGridWidth - 1)) \X (0..(renderGridHeight - 1))

\* the border positions: exactly one coordinate is even
BorderPositions == {p \in RenderPositions : (p[1] % 2 = 0) # (p[2] % 2 = 0)}

\* the two tile positions on the two sides of border position p, where the
\* render grid has them
SidesOf(p) ==
    {q \in (IF p[1] % 2 = 0 THEN {<<p[1] - 1, p[2]>>, <<p[1] + 1, p[2]>>}
                            ELSE {<<p[1], p[2] - 1>>, <<p[1], p[2] + 1>>}) :
        q \in RenderPositions}

\* grid cell c is a tile, and none of its 8 neighbours is a tile of the same
\* location
IsolatedTile(c) ==
    /\ RenderedTile(c[1], c[2]) # NULL
    /\ \A o \in Offsets8 :
          <<c[1] + o[1], c[2] + o[2]>> \in GridCells
              => RenderedTile(c[1] + o[1], c[2] + o[2]) # RenderedTile(c[1], c[2])

\* C25: at every step of the border pass, a border cell holds index i only if
\* the tile cells on its two sides both hold i; around a tile with no tile of
\* its location among its 8 neighbours all 8 border and corner cells are
\* unassigned; the outermost rows and columns are unassigned.
C25_BorderNeedsBothSides ==
    pc \in {"borders", "rendered"} =>
        /\ \A p \in BorderPositions :
              renderGrid[p[2]][p[1]] # NULL =>
                  /\ Cardinality(SidesOf(p)) = 2
                  /\ \A q \in SidesOf(p) : renderGrid[q[2]][q[1]] = renderGrid[p[2]][p[1]]
        /\ \A c \in GridCells :
              IsolatedTile(c) =>
                  \A o \in Offsets8 :
                      renderGrid[2 * c[2] + 1 + o[2]][2 * c[1] + 1 + o[1]] = NULL
        /\ \A p \in RenderPositions :
              (p[1] \in {0, renderGridWidth - 1} \/ p[2] \in {0, renderGridHeight - 1})
                  => renderGrid[p[2]][p[1]] = NULL

C25_Witness ==
    /\ pc = "rendered"
    /\ \E p \in BorderPositions : p[1] % 2 = 0 /\ renderGrid[p[2]][p[1]] # NULL
    /\ \E p \in BorderPositions : p[2] % 2 = 0 /\ renderGrid[p[2]][p[1]] # NULL
    /\ \E c \in GridCells :
          /\ IsolatedTile(c)
          /\ c[1] >= 1 /\ c[1] + 1 < gridWidth /\ c[2] >= 1 /\ c[2] + 1 < gridHeight
          /\ \A d \in GridCells : RenderedTile(d[1], d[2]) # NULL

\* the longitudes of the input differ, and so do its latitudes
NonZeroRanges ==
    /\ \E a, b \in 1..Len(input) : input[a].lng # input[b].lng
    /\ \E a, b \in 1..Len(input) : input[a].lat # input[b].lat

\* C26: when the latitude range and the longitude range of the input are not
\* zero, every location's centerX is an integer of BUFFER_SIZE .. gridWidth -
\* BUFFER_SIZE, its centerY one of BUFFER_SIZE .. gridHeight - BUFFER_SIZE,
\* and the center is a cell of the grid.
C26_CenterInsideBuffer ==
    NonZeroRanges =>
        \A k \in 1..Len(cities) :
            /\ cities[k].centerX \in BUFFER_SIZE..(gridWidth - BUFFER_SIZE)
            /\ cities[k].centerY \in BUFFER_SIZE..(gridHeight - BUFFER_SIZE)
            /\ <<cities[k].centerX, cities[k].centerY>> \in GridCells

\* C27: at every step of a pass takenCells is exactly the set of the numbers
\* y * gridWidth + x of the tiles (x, y) appended so far to the tile lists, and
\* it has as many elements as tiles were appended.
C27_TakenCellsAreTheTiles ==
    /\ takenCells = {TileAt(slot).y * gridWidth + TileAt(slot).x : slot \in TileSlots}
    /\ Cardinality(takenCells) = Cardinality(TileSlots)

C27_Witness ==
    /\ pc = "grow"
    /\ gridWidth # gridHeight
    /\ Len(cityTiles) >= 1
    /\ Len(cityTiles[1].tiles) >= 1
    /\ Len(tiles) >= 2
    /\ \E n \in 1..Len(tiles) : tiles[n].x > 0 /\ tiles[n].y > 0

\* C28: a second generate() on the same generator returns what the first call
\* returned: one entry per input location, with the same tiles.
C28_RepeatedGenerateSameResult ==
    (previous # <<>> /\ pc = "done") =>
        /\ Len(cityTiles) = Len(input)
        /\ cityTiles = previous[1]

\* C29: on a list of positive total population, a mousedown on a tile starts
\* a drag of the city the tile was generated from, also when another city of
\* the list has the same name: after startDrag dragCityIndex is that city's
\* index, and an onDrag that follows changes no other city of the list.
C29_DragsThePressedCity ==
    [][/\ (startDrag /\ totalPopulation > 0) => dragCityIndex' = pressedCityIndex'
       /\ (onDrag /\ totalPopulation > 0) =>
             \A j \in 1..Len(editableCities) :
                 j # pressedCityIndex + 1 => editableCities'[j] = editableCities[j]]_vars

\* C30: in every state of the component, isDragging is true exactly when
\* dragCityIndex is an index of editableCities, and dragCityIndex is -1
\* exactly when isDragging is false.
C30_DragStateConsistent ==
    /\ isDragging <=> dragCityIndex \in 0..(Len(editableCities) - 1)
    /\ dragCityIndex = 0 - 1 <=> ~isDragging

====
